---- MODULE Spec2Model ----
(***************************************************************************)
(* Action-execution layer of dropstep's browser agent: the upload action   *)
(* (three variants), the latest-download query and the                     *)
(* click-and-confirm-download action, with the collaborators they call     *)
(* (browser session, page, element handle, download object, filesystem)    *)
(* as nondeterministic environments.                                       *)
(***************************************************************************)
EXTENDS Integers, Sequences, FiniteSets, TLC

VARIABLES
    pc,          \* position of the in-flight action ("idle" between actions)
    call,        \* the arguments of the current / last action call
    result,      \* what the last call gave back: an envelope, or a raised fault
    log,         \* collaborator calls and events of the current / last call, in order
    loc,         \* locals of the in-flight action
    configured,  \* browser_session.browser_profile.downloads_dir is set
    dirExists,   \* the target directory exists
    files,       \* the target directory: name -> entry
    clock,       \* the filesystem's modification-time source
    elapsed,     \* seconds since page.expect_download was entered
    opStart,     \* value of elapsed when the current timed handle call began
    listener,    \* the page's download waiter: off, armed, observed, timedout
    trigger,     \* a click reached the browser and may still start a download
    bw,          \* writes the browser's own download writer may still perform
    bname,       \* the filename of the download the browser's writer is handling
    dirAtCall,   \* the target directory's entries when the current call began
    browserWrote, \* the browser's writer changed the directory during the call
    uploaded,    \* canonical paths of the files attached by successful uploads
    run          \* the agent runner's process: position, inputs, import state, outputs

vars == <<pc, call, result, log, loc, configured, dirExists, files, clock,
          elapsed, opStart, listener, trigger, bw, bname, dirAtCall, browserWrote,
          uploaded, run>>

----------------------------------------------------------------------------
(* Bounds of the model *)

MaxPathLen == 2
MaxAllow == 2
MaxIndex == 1
MaxSize == 1
MaxClock == 1
MaxBrowserWrites == 1

(* Timeouts of the program, in seconds *)
TextTimeoutS == 1
ClickTimeoutS == 10
DownloadTimeoutS == 30

----------------------------------------------------------------------------
(* Paths: a path string is its leading-slash flag and its "/"-separated     *)
(* components ("" is the empty component between two slashes).              *)

Comp == {"d", "f", "..", ".", ""}

RECURSIVE SeqsUpTo(_, _)
SeqsUpTo(S, n) ==
    IF n = 0 THEN {<<>>}
    ELSE LET shorter == SeqsUpTo(S, n - 1)
         IN  shorter \cup {Append(s, c) : s \in {t \in shorter : Len(t) = n - 1}, c \in S}

PathInputs == [abs : BOOLEAN, parts : SeqsUpTo(Comp, MaxPathLen)]

CwdInputs == {<<>>, <<"d">>}

(* posixpath.normpath's component loop *)
RECURSIVE NormComps(_, _, _)
NormComps(comps, new, rooted) ==
    IF comps = <<>> THEN new
    ELSE LET c == Head(comps)
             rest == Tail(comps)
         IN  IF c \in {"", "."} THEN NormComps(rest, new, rooted)
             ELSE IF c # ".." \/ (~rooted /\ new = <<>>)
                               \/ (new # <<>> /\ new[Len(new)] = "..")
                  THEN NormComps(rest, Append(new, c), rooted)
                  ELSE IF new # <<>>
                       THEN NormComps(rest, SubSeq(new, 1, Len(new) - 1), rooted)
                       ELSE NormComps(rest, new, rooted)

(* posixpath.normpath keeps exactly two leading slashes, folds three or more *)
InitialSlashes(p) ==
    IF ~p.abs THEN 0
    ELSE IF Len(p.parts) >= 1 /\ p.parts[1] = ""
            /\ ~(Len(p.parts) >= 2 /\ p.parts[2] = "")
         THEN 2
         ELSE 1

(* os.path.abspath(path) with the process's working directory cwd: a        *)
(* relative path is joined to cwd, then normalised.                         *)
AbsPath(path, cwd) ==
    IF path.abs
    THEN [slashes |-> InitialSlashes(path), parts |-> NormComps(path.parts, <<>>, TRUE)]
    ELSE [slashes |-> 1, parts |-> NormComps(cwd \o path.parts, <<>>, TRUE)]

----------------------------------------------------------------------------
(* Result envelope (browser_use ActionResult) and what its texts carry      *)

NoErr == [msg |-> "none", exc |-> "-", index |-> -1, listsValid |-> FALSE,
          valid |-> {}, temp |-> FALSE]

(* An error text built from message template msg, naming exception type exc *)
(* and element index index; none of the program's texts lists the valid     *)
(* indices.                                                                 *)
Err(msg, exc, index) ==
    [msg |-> msg, exc |-> exc, index |-> index, listsValid |-> FALSE,
     valid |-> {}, temp |-> FALSE]

NoContent == [msg |-> "none", index |-> -1, name |-> "-",
              path |-> [abs |-> FALSE, parts |-> <<>>]]

(* A content text built from template msg, naming element index index and   *)
(* file name name.                                                          *)
Content(msg, index, name) == [NoContent EXCEPT !.msg = msg, !.index = index,
                                               !.name = name]

(* The upload's success text names the index and the path as it was given   *)
UploadedContent(index, path) == [Content("uploaded", index, "-") EXCEPT !.path = path]

NoPayload == [status |-> "none", filename |-> "-", dir |-> "-", size |-> 0, mtime |-> 0]

(* Faulty variant: an error envelope that still carries a record            *)
ErrorWithPayload(e) ==
    [ret |-> "envelope", error |-> e, content |-> NoContent,
     payload |-> [NoPayload EXCEPT !.status = "partial"], mem |-> FALSE]

(* ActionResult(...): include_in_memory defaults to False *)
ErrorResult(e) ==
    [ret |-> "envelope", error |-> e, content |-> NoContent,
     payload |-> NoPayload, mem |-> FALSE]

ContentResult(c, p, mem) ==
    [ret |-> "envelope", error |-> NoErr, content |-> c, payload |-> p, mem |-> mem]

(* A fault that leaves the action: the caller gets no envelope *)
Raised(exc) ==
    [ret |-> "raised", error |-> Err("unhandled", exc, -1), content |-> NoContent,
     payload |-> NoPayload, mem |-> FALSE]

NoResult ==
    [ret |-> "none", error |-> NoErr, content |-> NoContent,
     payload |-> NoPayload, mem |-> FALSE]

----------------------------------------------------------------------------
(* Upload action, three variants                                            *)

Variants == {"actions", "agentassets", "agent"}

Indices == 0 .. MaxIndex

AllowCandidates ==
    { [abs |-> TRUE,  parts |-> <<"d", "f">>],
      [abs |-> FALSE, parts |-> <<"f">>],
      [abs |-> TRUE,  parts |-> <<"d", "..", "f">>],
      [abs |-> TRUE,  parts |-> <<"", "d">>] }

AllowInputs == {A \in SUBSET AllowCandidates : Cardinality(A) <= MaxAllow}

NoPath == [abs |-> FALSE, parts |-> <<>>]

(* Faulty variant: the allow-list test compares file names only *)
UploadAllowedByName(variant, path, allow, cwd) ==
    LET base(p) == LET c == AbsPath(p, cwd).parts
                   IN  IF c = <<>> THEN "" ELSE c[Len(c)]
    IN  base(path) \in {base(p) : p \in allow}

(* The allow-list test of each variant *)
UploadAllowed(variant, path, allow, cwd) ==
    IF variant = "agent"
    THEN path \in allow
    ELSE AbsPath(path, cwd) \in {AbsPath(p, cwd) : p \in allow}

(* The whole upload handler, given what the collaborators answer:           *)
(* find, locate in {"raise", "none", "ok"}, attach in {"raise", "ok"}.      *)
(* Gives the result and the session calls made, in order.                  *)
UploadOutcome(variant, index, path, allow, cwd, find, locate, attach) ==
    IF ~UploadAllowed(variant, path, allow, cwd)
    THEN [res |-> ErrorResult(Err("path_not_allowed", "-", -1)), calls |-> <<>>]
    ELSE IF find = "raise"
    THEN [res |-> Raised("Error"), calls |-> <<"find_upload">>]
    ELSE IF find = "none"
    THEN [res |-> ErrorResult(Err("no_upload_element", "-", index)),
          calls |-> <<"find_upload">>]
    ELSE IF locate = "raise"
    THEN [res |-> Raised("Error"), calls |-> <<"find_upload", "locate">>]
    ELSE IF locate = "none"
    THEN [res |-> ErrorResult(Err("upload_failed", "AttributeError", index)),
          calls |-> <<"find_upload", "locate">>]
    ELSE IF attach = "raise"
    THEN [res |-> ErrorResult(Err("upload_failed", "Error", index)),
          calls |-> <<"find_upload", "locate", "attach">>]
    ELSE [res |-> ContentResult(UploadedContent(index, path), NoPayload,
                                variant # "agent"),
          calls |-> <<"find_upload", "locate", "attach">>]

----------------------------------------------------------------------------
(* The target directory                                                     *)

Names == {"a", "b"}

(* An entry of the directory: absent, a regular file, or a subdirectory;    *)
(* inner is the modification time of a file inside the subdirectory         *)
(* (-1: none).                                                              *)
NoFile == [kind |-> "none", size |-> 0, mtime |-> 0, inner |-> -1]

File(size, mtime) == [kind |-> "file", size |-> size, mtime |-> mtime, inner |-> -1]

Dir(mtime, inner) == [kind |-> "dir", size |-> 0, mtime |-> mtime, inner |-> inner]

Sizes == 0 .. MaxSize

(* Path.is_file() and Path.stat().st_size of target_dir / name *)
IsFile(fs, name) == fs[name].kind = "file"

(* A write stamps the file with the current time; the time source moves on  *)
(* until the model's horizon, after which writes share a timestamp.         *)
NextClock(c) == IF c < MaxClock THEN c + 1 ELSE c

----------------------------------------------------------------------------
(* State of a call                                                          *)

NoCall == [op |-> "none", variant |-> "-", index |-> 0, path |-> NoPath,
           allow |-> {}, cwd |-> <<>>]

ClickCall(index) == [NoCall EXCEPT !.op = "click", !.index = index]

LatestCall == [NoCall EXCEPT !.op = "latest"]

UploadCall(variant, index, path, allow, cwd) ==
    [op |-> "upload", variant |-> variant, index |-> index, path |-> path,
     allow |-> allow, cwd |-> cwd]

NoLoc == [snap |-> "-", smap |-> {}, name |-> "-", size |-> 0, clickArmed |-> "-",
          order |-> <<>>]

(* The action returns r to the caller: the page's waiter is gone with the   *)
(* call's frame. No returning step writes to the target directory.          *)
Return(r) ==
    /\ pc' = "idle"
    /\ result' = r
    /\ listener' = "off"
    /\ elapsed' = 0
    /\ opStart' = 0
    /\ dirAtCall' = files

Logged(e) == log' = Append(log, e)

----------------------------------------------------------------------------
(* click_and_wait_for_download_impl                                         *)

(* Faulty variant: a failed creation of the target directory is ignored     *)
ClickStartIgnoresMkdir(index, mkdirOk) ==
    /\ pc = "idle"
    /\ call' = ClickCall(index)
    /\ loc' = NoLoc
    /\ log' = <<>>
    /\ browserWrote' = FALSE
    /\ UNCHANGED <<uploaded, run>>
    /\ UNCHANGED <<configured, files, clock, trigger, bw, bname>>
    /\ IF ~configured
       THEN /\ Return(ErrorResult(Err("not_configured", "-", -1)))
            /\ UNCHANGED dirExists
       ELSE /\ dirExists' = (dirExists \/ mkdirOk)
            /\ pc' = "c_page"
            /\ result' = NoResult
            /\ dirAtCall' = files
            /\ UNCHANGED <<listener, elapsed, opStart>>

(* Faulty variant: the configuration check is missing                       *)
ClickStartNoConfigCheck(index, mkdirOk) ==
    /\ pc = "idle"
    /\ call' = ClickCall(index)
    /\ loc' = NoLoc
    /\ log' = <<>>
    /\ browserWrote' = FALSE
    /\ UNCHANGED <<uploaded, run>>
    /\ UNCHANGED <<configured, files, clock, trigger, bw, bname>>
    /\ IF ~dirExists /\ ~mkdirOk
       THEN /\ Return(ErrorResult(Err("mkdir_failed", "Error", -1)))
            /\ UNCHANGED dirExists
       ELSE /\ dirExists' = TRUE
            /\ pc' = "c_page"
            /\ result' = NoResult
            /\ dirAtCall' = files
            /\ UNCHANGED <<listener, elapsed, opStart>>

(* Lines 62-76: configuration check and on-demand creation of the target.   *)
ClickStart(index, mkdirOk) ==
    /\ pc = "idle"
    /\ call' = ClickCall(index)
    /\ loc' = NoLoc
    /\ log' = <<>>
    /\ browserWrote' = FALSE
    /\ UNCHANGED <<uploaded, run>>
    /\ UNCHANGED <<configured, files, clock, trigger, bw, bname>>
    /\ IF ~configured
       THEN /\ Return(ErrorResult(Err("not_configured", "-", -1)))
            /\ UNCHANGED dirExists
       ELSE IF ~dirExists /\ ~mkdirOk
       THEN /\ Return(ErrorResult(Err("mkdir_failed", "Error", -1)))
            /\ UNCHANGED dirExists
       ELSE /\ dirExists' = TRUE
            /\ pc' = "c_page"
            /\ result' = NoResult
            /\ dirAtCall' = files
            /\ UNCHANGED <<listener, elapsed, opStart>>

(* Line 78: browser_session.get_current_page(), outside every try block.    *)
GetPage(out) ==
    /\ pc = "c_page"
    /\ Logged("page")
    /\ UNCHANGED <<call, loc, configured, dirExists, files, clock, trigger, bw,
                   bname, browserWrote, uploaded, run>>
    /\ CASE out = "raise" -> Return(Raised("Error"))
         [] out = "none"  -> Return(ErrorResult(Err("no_page", "-", -1)))
         [] OTHER         -> /\ pc' = "c_snapshot"
                             /\ UNCHANGED <<result, listener, elapsed, opStart, dirAtCall>>

(* Lines 88-119: get_state_summary and the index lookup. snap is "raise",   *)
(* "none" (no summary) or "map" with selector map smap. The summary is not  *)
(* read again once the element is found, so loc keeps smap only for a       *)
(* failed lookup.                                                           *)
ResolveOutcome(index, snap, smap) ==
    IF snap = "raise" THEN ErrorResult(Err("find_error", "Error", index))
    ELSE IF snap = "none" \/ smap = {}
    THEN ErrorResult(Err("no_state", "-", -1))
    ELSE IF index \notin smap
    THEN ErrorResult(Err("index_not_found", "-", index))
    ELSE NoResult

GetState(snap, smap) ==
    /\ pc = "c_snapshot"
    /\ Logged("snapshot")
    /\ UNCHANGED <<call, configured, dirExists, files, clock, trigger, bw, bname, browserWrote, uploaded, run>>
    /\ LET r == ResolveOutcome(call.index, snap, smap)
       IN  IF r.ret = "none"
           THEN /\ pc' = "c_locate"
                /\ loc' = [loc EXCEPT !.snap = snap]
                /\ UNCHANGED <<result, listener, elapsed, opStart, dirAtCall>>
           ELSE /\ loc' = [loc EXCEPT !.snap = snap,
                                      !.smap = IF snap = "map" THEN smap ELSE {}]
                /\ Return(r)

(* Faulty variant: the click is issued before page.expect_download is entered *)
LocateClickBeforeArm(out) ==
    /\ pc = "c_locate"
    /\ UNCHANGED <<call, configured, dirExists, files, clock, bw, bname, browserWrote, uploaded, run>>
    /\ IF out = "ok"
       THEN /\ pc' = "c_click"
            /\ log' = log \o <<"locate", "click", "arm">>
            /\ loc' = [loc EXCEPT !.clickArmed =
                           IF listener \in {"armed", "observed"} THEN "yes" ELSE "no"]
            /\ listener' = "armed"
            /\ elapsed' = 0
            /\ opStart' = 0
            /\ trigger' = TRUE
            /\ UNCHANGED <<result, dirAtCall>>
       ELSE /\ Logged("locate")
            /\ Return(ErrorResult(Err("no_handle", "-", call.index)))
            /\ UNCHANGED <<loc, trigger>>

(* Lines 121-130, then 135-138: get_locate_element; with a handle, the      *)
(* download waiter is armed and text_content is awaited inside it.          *)
LocateOutcome(index, out) ==
    IF out = "raise" THEN ErrorResult(Err("find_error", "Error", index))
    ELSE IF out = "none" THEN ErrorResult(Err("no_handle", "-", index))
    ELSE NoResult

Locate(out) ==
    /\ pc = "c_locate"
    /\ UNCHANGED <<call, loc, configured, dirExists, files, clock, trigger, bw,
                   bname, browserWrote, uploaded, run>>
    /\ LET r == LocateOutcome(call.index, out)
       IN  IF r.ret = "none"
           THEN /\ pc' = "c_text"
                /\ log' = log \o <<"locate", "arm", "text">>
                /\ listener' = "armed"
                /\ elapsed' = 0
                /\ opStart' = 0
                /\ UNCHANGED <<result, dirAtCall>>
           ELSE /\ Logged("locate")
                /\ Return(r)

(* Line 183: a fault in the click-and-download part becomes an error        *)
(* envelope naming the fault's type.                                        *)
DownloadPartFault(exc) ==
    Return(ErrorResult(Err("click_download_error", exc, call.index)))

(* Line 142: element_handle.click(timeout=10000) is issued.                 *)
DispatchClick ==
    /\ pc' = "c_click"
    /\ Logged("click")
    /\ loc' = [loc EXCEPT !.clickArmed =
                   IF listener \in {"armed", "observed"} /\ elapsed < DownloadTimeoutS
                   THEN "yes" ELSE "no"]
    /\ opStart' = elapsed
    /\ trigger' = TRUE
    /\ UNCHANGED <<result, listener, elapsed, dirAtCall>>

(* Lines 137-141: text_content(timeout=1000) answers: a text, a fault or    *)
(* its timeout (both swallowed), or None, which line 141 cannot slice.      *)
TextDone(out) ==
    /\ pc = "c_text"
    /\ IF out = "timeout"
       THEN elapsed - opStart = TextTimeoutS
       ELSE elapsed - opStart < TextTimeoutS
    /\ UNCHANGED <<call, configured, dirExists, files, clock, bw, bname, browserWrote, uploaded, run>>
    /\ IF out = "none"
       THEN /\ DownloadPartFault("TypeError")
            /\ UNCHANGED <<log, loc, trigger>>
       ELSE DispatchClick

(* Faulty variant: a click that faulted is dispatched once more             *)
ClickDoneRetries(out) ==
    /\ pc = "c_click"
    /\ IF out = "timeout"
       THEN elapsed - opStart = ClickTimeoutS
       ELSE elapsed - opStart < ClickTimeoutS
    /\ UNCHANGED <<call, loc, configured, dirExists, files, clock, trigger, bw,
                   bname, browserWrote, uploaded, run>>
    /\ CASE out = "ok"      -> /\ pc' = "c_wait"
                               /\ UNCHANGED <<log, result, listener, elapsed, opStart,
                                              dirAtCall>>
         [] out = "timeout" -> /\ DownloadPartFault("TimeoutError")
                               /\ UNCHANGED log
         [] OTHER           -> /\ Logged("click")
                               /\ opStart' = elapsed
                               /\ UNCHANGED <<pc, result, listener, elapsed, dirAtCall>>

(* Line 142: the click answers, faults, or runs into its own timeout.       *)
ClickDone(out) ==
    /\ pc = "c_click"
    /\ IF out = "timeout"
       THEN elapsed - opStart = ClickTimeoutS
       ELSE elapsed - opStart < ClickTimeoutS
    /\ UNCHANGED <<call, log, loc, configured, dirExists, files, clock, trigger, bw,
                   bname, browserWrote, uploaded, run>>
    /\ CASE out = "ok"      -> /\ pc' = "c_wait"
                               /\ UNCHANGED <<result, listener, elapsed, opStart, dirAtCall>>
         [] out = "timeout" -> DownloadPartFault("TimeoutError")
         [] OTHER           -> DownloadPartFault("Error")

(* The deadline of the timed call pending at a position of the action, as  *)
(* a value of elapsed                                                       *)
OpDeadline ==
    CASE pc = "c_text"  -> opStart + TextTimeoutS
      [] pc = "c_click" -> opStart + ClickTimeoutS
      [] OTHER          -> DownloadTimeoutS

(* Time passes while a timed call is pending, up to the next deadline (the  *)
(* call's own or the download waiter's); an answer or an event may come at  *)
(* any moment before it.                                                    *)
Tick ==
    /\ pc \in {"c_text", "c_click", "c_wait"}
    /\ ~(pc = "c_wait" /\ listener = "observed")
    /\ elapsed < OpDeadline
    /\ elapsed' = IF elapsed < DownloadTimeoutS /\ DownloadTimeoutS < OpDeadline
                  THEN DownloadTimeoutS
                  ELSE OpDeadline
    /\ UNCHANGED <<pc, call, result, log, loc, configured, dirExists, files, clock,
                   opStart, listener, trigger, bw, bname, dirAtCall, browserWrote, uploaded, run>>

(* The browser starts a download with suggested filename name. A waiter     *)
(* armed and within its deadline takes the event; otherwise nobody does.    *)
BrowserDownloadEvent(name) ==
    /\ trigger
    /\ trigger' = FALSE
    /\ bw' = MaxBrowserWrites
    /\ bname' = name
    /\ IF listener = "armed" /\ elapsed < DownloadTimeoutS
       THEN /\ listener' = "observed"
            /\ loc' = [loc EXCEPT !.name = name]
            /\ Logged("event")
       ELSE UNCHANGED <<listener, loc, log>>
    /\ UNCHANGED <<pc, call, result, configured, dirExists, files, clock, elapsed,
                   opStart, dirAtCall, browserWrote, uploaded, run>>

(* Faulty variant: the download's temporary path is asked for although no event    *)
(* was taken                                                                *)
WaitObservedOrNot ==
    /\ pc = "c_wait"
    /\ listener \in {"observed", "armed"}
    /\ pc' = "c_path"
    /\ Logged("path")
    /\ elapsed' = 0
    /\ opStart' = 0
    /\ loc' = [loc EXCEPT !.name = IF listener = "observed" THEN loc.name ELSE "a"]
    /\ UNCHANGED <<call, result, configured, dirExists, files, clock,
                   listener, trigger, bw, bname, dirAtCall, browserWrote, uploaded, run>>

(* Lines 143-147: leaving the expect_download block with the event taken;   *)
(* download.path() is awaited.                                              *)
WaitObserved ==
    /\ pc = "c_wait"
    /\ listener = "observed"
    /\ pc' = "c_path"
    /\ Logged("path")
    /\ elapsed' = 0
    /\ opStart' = 0
    /\ UNCHANGED <<call, result, loc, configured, dirExists, files, clock,
                   listener, trigger, bw, bname, dirAtCall, browserWrote, uploaded, run>>

(* Faulty variant: the timeout leaves an empty placeholder at a final path *)
WaitTimeoutTouches ==
    /\ pc = "c_wait"
    /\ listener = "armed"
    /\ elapsed >= DownloadTimeoutS
    /\ Logged("timeout")
    /\ DownloadPartFault("TimeoutError")
    /\ files' = [files EXCEPT !["a"] = File(0, clock)]
    /\ UNCHANGED <<call, loc, configured, dirExists, clock, trigger, bw,
                   bname, browserWrote, uploaded, run>>

(* Line 135: the waiter's 30 s deadline passes with no event.               *)
WaitTimeout ==
    /\ pc = "c_wait"
    /\ listener = "armed"
    /\ elapsed >= DownloadTimeoutS
    /\ Logged("timeout")
    /\ DownloadPartFault("TimeoutError")
    /\ UNCHANGED <<call, loc, configured, dirExists, files, clock, trigger, bw,
                   bname, browserWrote, uploaded, run>>

(* Line 147: download.path() answers or faults; it carries no deadline.     *)
(* Then lines 150-154: save_as(target_dir / suggested_filename) is awaited. *)
PathDone(out) ==
    /\ pc = "c_path"
    /\ UNCHANGED <<call, loc, configured, dirExists, files, clock, trigger, bw,
                   bname, browserWrote, uploaded, run>>
    /\ IF out = "ok"
       THEN /\ pc' = "c_save"
            /\ Logged("save")
            /\ UNCHANGED <<result, listener, elapsed, opStart, dirAtCall>>
       ELSE /\ DownloadPartFault("Error")
            /\ UNCHANGED log

(* Line 154: save_as writes the download's content (size bytes) to the      *)
(* final path, or faults, or returns having left nothing there: the case    *)
(* lines 157-166 look for.                                                  *)
SaveDone(out, size) ==
    /\ pc = "c_save"
    /\ UNCHANGED <<call, loc, configured, dirExists, trigger, bw, bname, browserWrote, uploaded, run>>
    /\ IF out = "ok"
       THEN /\ files' = [files EXCEPT ![loc.name] = File(size, clock)]
            /\ clock' = NextClock(clock)
            /\ pc' = "c_verify"
            /\ Logged("saved")
            /\ UNCHANGED <<result, listener, elapsed, opStart, dirAtCall>>
       ELSE IF out = "nothing"
       THEN /\ size = 0
            /\ pc' = "c_verify"
            /\ Logged("returned")
            /\ UNCHANGED <<result, listener, elapsed, opStart, dirAtCall, files, clock>>
       ELSE /\ DownloadPartFault("Error")
            /\ UNCHANGED <<log, files, clock>>

(* Line 157 and line 160: a non-empty regular file at the final path.       *)
NonEmptyFileAt(fs, name) == IsFile(fs, name) /\ fs[name].size > 0

(* Line 157: the primary check of the final path.                           *)
Verify ==
    /\ pc = "c_verify"
    /\ Logged("verify")
    /\ pc' = IF NonEmptyFileAt(files, loc.name) THEN "c_confirm" ELSE "c_fallback"
    /\ UNCHANGED <<call, result, loc, configured, dirExists, files, clock, elapsed,
                   opStart, listener, trigger, bw, bname, dirAtCall, browserWrote, uploaded, run>>

(* Faulty variant: failure is declared without looking for the file again   *)
FallbackGivesUp ==
    /\ pc = "c_fallback"
    /\ Logged("fallback")
    /\ UNCHANGED <<call, loc, configured, dirExists, files, clock, trigger, bw,
                   bname, browserWrote, uploaded, run>>
    /\ IF FALSE
       THEN /\ pc' = "c_confirm"
            /\ UNCHANGED <<result, listener, elapsed, opStart, dirAtCall>>
       ELSE Return(ErrorResult([Err("not_saved", "-", -1) EXCEPT !.temp = TRUE]))

(* Faulty variant: the error text leaves out the temporary download path    *)
FallbackOmitsTemp ==
    /\ pc = "c_fallback"
    /\ Logged("fallback")
    /\ UNCHANGED <<call, loc, configured, dirExists, files, clock, trigger, bw,
                   bname, browserWrote, uploaded, run>>
    /\ IF NonEmptyFileAt(files, loc.name)
       THEN /\ pc' = "c_confirm"
            /\ UNCHANGED <<result, listener, elapsed, opStart, dirAtCall>>
       ELSE Return(ErrorResult(Err("not_saved", "-", -1)))

(* Faulty variant: the fallback takes any non-empty file of the directory   *)
FallbackLooksElsewhere ==
    /\ pc = "c_fallback"
    /\ Logged("fallback")
    /\ UNCHANGED <<call, configured, dirExists, files, clock, trigger, bw,
                   bname, browserWrote, uploaded, run>>
    /\ IF \E n \in DOMAIN files : NonEmptyFileAt(files, n)
       THEN /\ pc' = "c_confirm"
            /\ loc' = [loc EXCEPT !.name =
                           CHOOSE n \in DOMAIN files : NonEmptyFileAt(files, n)]
            /\ UNCHANGED <<result, listener, elapsed, opStart, dirAtCall>>
       ELSE /\ Return(ErrorResult([Err("not_saved", "-", -1) EXCEPT !.temp = TRUE]))
            /\ UNCHANGED loc

(* Lines 159-166: the fallback check, of target_dir / suggested_filename.   *)
Fallback ==
    /\ pc = "c_fallback"
    /\ Logged("fallback")
    /\ UNCHANGED <<call, loc, configured, dirExists, files, clock, trigger, bw,
                   bname, browserWrote, uploaded, run>>
    /\ IF NonEmptyFileAt(files, loc.name)
       THEN /\ pc' = "c_confirm"
            /\ UNCHANGED <<result, listener, elapsed, opStart, dirAtCall>>
       ELSE Return(ErrorResult([Err("not_saved", "-", -1) EXCEPT !.temp = TRUE]))

(* Lines 168-174 read the final path three times: stat for the debug line,  *)
(* stat for size_bytes, stat for modified_time_utc. A stat of a missing     *)
(* file raises FileNotFoundError into line 183.                             *)
Confirm ==
    /\ pc = "c_confirm"
    /\ UNCHANGED <<call, log, loc, configured, dirExists, files, clock, trigger, bw,
                   bname, browserWrote, uploaded, run>>
    /\ IF IsFile(files, loc.name)
       THEN /\ pc' = "c_size"
            /\ UNCHANGED <<result, listener, elapsed, opStart, dirAtCall>>
       ELSE DownloadPartFault("FileNotFoundError")

ReadSize ==
    /\ pc = "c_size"
    /\ UNCHANGED <<call, log, configured, dirExists, files, clock, trigger, bw,
                   bname, browserWrote, uploaded, run>>
    /\ IF IsFile(files, loc.name)
       THEN /\ pc' = "c_mtime"
            /\ loc' = [loc EXCEPT !.size = files[loc.name].size]
            /\ UNCHANGED <<result, listener, elapsed, opStart, dirAtCall>>
       ELSE /\ DownloadPartFault("FileNotFoundError")
            /\ UNCHANGED loc

(* A suggested filename with a parent-directory component: the final path  *)
(* target_dir / name then lies in the parent of the target directory.       *)
Outside == "../x"

(* The suggested filenames a download event may carry *)
SuggestedNames == Names \cup {Outside}

(* Path.name of target_dir / name *)
BaseName(name) == IF name = Outside THEN "x" ELSE name

(* The directory of (target_dir / name).resolve() *)
DirOf(name) == IF name = Outside THEN "parent" ELSE "target"

(* Lines 170-176: the record is built from save_path, never from            *)
(* temp_download_path.                                                      *)
SavedPayload(name, size, mtime) ==
    [status |-> "download_successful_and_saved", filename |-> BaseName(name),
     dir |-> DirOf(name), size |-> size, mtime |-> mtime]

ReadMtime ==
    /\ pc = "c_mtime"
    /\ UNCHANGED <<call, log, loc, configured, dirExists, files, clock, trigger, bw,
                   bname, browserWrote, uploaded, run>>
    /\ IF IsFile(files, loc.name)
       THEN Return(ContentResult(Content("saved", -1, loc.name),
                                 SavedPayload(loc.name, loc.size, files[loc.name].mtime),
                                 TRUE))
       ELSE DownloadPartFault("FileNotFoundError")

----------------------------------------------------------------------------
(* The browser's own download writer, a separate process: while a download  *)
(* it started is being handled it may write, rewrite or remove entries of   *)
(* the target directory at any moment.                                      *)

BrowserWrite(size) ==
    /\ bw > 0
    /\ dirExists
    /\ files[bname].kind # "dir"
    /\ files' = [files EXCEPT ![bname] = File(size, clock)]
    /\ clock' = NextClock(clock)
    /\ bw' = bw - 1
    /\ browserWrote' = (browserWrote \/ pc # "idle")
    /\ UNCHANGED <<uploaded, run>>
    /\ dirAtCall' = IF pc = "idle" THEN files' ELSE dirAtCall
    /\ UNCHANGED <<pc, call, result, log, loc, configured, dirExists, elapsed,
                   opStart, listener, trigger, bname>>

BrowserRemove ==
    /\ bw > 0
    /\ IsFile(files, bname)
    /\ files' = [files EXCEPT ![bname] = NoFile]
    /\ bw' = bw - 1
    /\ browserWrote' = (browserWrote \/ pc # "idle")
    /\ UNCHANGED <<uploaded, run>>
    /\ dirAtCall' = IF pc = "idle" THEN files' ELSE dirAtCall
    /\ UNCHANGED <<pc, call, result, log, loc, configured, dirExists, clock, elapsed,
                   opStart, listener, trigger, bname>>

----------------------------------------------------------------------------
(* get_last_downloaded_file_info_impl                                       *)

(* The orders in which iterdir may enumerate the directory *)
Orders ==
    {o \in [1 .. Cardinality(Names) -> Names] :
        \A i, j \in 1 .. Cardinality(Names) : o[i] = o[j] => i = j}

(* Faulty variant: every entry is listed, without the is_file() filter      *)
RECURSIVE EntriesOf(_, _)
EntriesOf(order, fs) ==
    IF order = <<>> THEN <<>>
    ELSE IF fs[Head(order)].kind # "none"
         THEN <<Head(order)>> \o EntriesOf(Tail(order), fs)
         ELSE EntriesOf(Tail(order), fs)

(* Line 37: the entries for which is_file() holds, in enumeration order     *)
RECURSIVE FilesOf(_, _)
FilesOf(order, fs) ==
    IF order = <<>> THEN <<>>
    ELSE IF IsFile(fs, Head(order))
         THEN <<Head(order)>> \o FilesOf(Tail(order), fs)
         ELSE FilesOf(Tail(order), fs)

(* Faulty variant: the first enumerated file is taken as the latest         *)
FirstOf(list, fs) == list[1]

(* Faulty variant: among files of equal greatest mtime the last one wins    *)
LastLatestOf(list, fs) ==
    LET i == CHOOSE k \in 1 .. Len(list) :
                 /\ \A j \in 1 .. Len(list) : fs[list[j]].mtime <= fs[list[k]].mtime
                 /\ \A j \in k + 1 .. Len(list) : fs[list[j]].mtime < fs[list[k]].mtime
    IN  list[i]

(* Faulty variant: the file modified longest ago is taken                   *)
OldestOf(list, fs) ==
    LET i == CHOOSE k \in 1 .. Len(list) :
                 /\ \A j \in 1 .. Len(list) : fs[list[j]].mtime >= fs[list[k]].mtime
                 /\ \A j \in 1 .. k - 1 : fs[list[j]].mtime > fs[list[k]].mtime
    IN  list[i]

(* max(files_in_dir, key=st_mtime): the first entry of greatest mtime *)
LatestOf(list, fs) ==
    LET i == CHOOSE k \in 1 .. Len(list) :
                 /\ \A j \in 1 .. Len(list) : fs[list[j]].mtime <= fs[list[k]].mtime
                 /\ \A j \in 1 .. k - 1 : fs[list[j]].mtime < fs[list[k]].mtime
    IN  list[i]

ConfirmedPayload(name, size, mtime) ==
    [status |-> "confirmed_in_target_dir", filename |-> name,
     dir |-> "target", size |-> size, mtime |-> mtime]

(* Lines 37-55 run over a directory fs that nothing changes meanwhile and   *)
(* whose calls all answer, iterdir enumerating in order `order`.            *)
QueryAnswer(order, fs) ==
    LET list == FilesOf(order, fs)
        n    == LatestOf(list, fs)
    IN  IF list = <<>>
        THEN NoPayload
        ELSE ConfirmedPayload(n, fs[n].size, fs[n].mtime)

(* Faulty variant: an empty directory is reported as an error               *)
NoFilesAsError == ErrorResult(Err("no_files", "-", -1))

(* Line 39: the envelope for a directory without regular files              *)
NoFilesResult == ContentResult(Content("no_files", -1, "-"), NoPayload, TRUE)

(* Path.stat() answers for any entry that exists                            *)
Exists(fs, name) == fs[name].kind # "none"

(* Faulty variant: a missing target directory is created, as the click      *)
(* action does                                                              *)
LatestStartCreatesDir(order, enumOk) ==
    /\ pc = "idle"
    /\ call' = LatestCall
    /\ browserWrote' = FALSE
    /\ UNCHANGED <<uploaded, run>>
    /\ UNCHANGED <<configured, files, clock, trigger, bw, bname>>
    /\ dirExists' = (dirExists \/ configured)
    /\ IF ~configured
       THEN /\ Return(ErrorResult(Err("not_configured", "-", -1)))
            /\ loc' = NoLoc
            /\ log' = <<>>
       ELSE IF ~enumOk
       THEN /\ Return(Raised("OSError"))
            /\ loc' = NoLoc
            /\ log' = <<"iterdir", "fault">>
       ELSE IF FilesOf(order, files) = <<>>
       THEN /\ Return(NoFilesResult)
            /\ loc' = NoLoc
            /\ log' = <<"iterdir">>
       ELSE /\ pc' = "l_max"
            /\ loc' = [NoLoc EXCEPT !.order = FilesOf(order, files)]
            /\ log' = <<"iterdir">>
            /\ result' = NoResult
            /\ dirAtCall' = files
            /\ UNCHANGED <<listener, elapsed, opStart>>

(* Lines 32-39: checks, enumeration in order `order`, the empty case.       *)
LatestStart(order, enumOk) ==
    /\ pc = "idle"
    /\ call' = LatestCall
    /\ browserWrote' = FALSE
    /\ UNCHANGED <<uploaded, run>>
    /\ UNCHANGED <<configured, dirExists, files, clock, trigger, bw, bname>>
    /\ IF ~configured
       THEN /\ Return(ErrorResult(Err("not_configured", "-", -1)))
            /\ loc' = NoLoc
            /\ log' = <<>>
       ELSE IF ~dirExists
       THEN /\ Return(ErrorResult(Err("dir_missing", "-", -1)))
            /\ loc' = NoLoc
            /\ log' = <<>>
       ELSE IF ~enumOk
       THEN /\ Return(Raised("OSError"))
            /\ loc' = NoLoc
            /\ log' = <<"iterdir", "fault">>
       ELSE IF FilesOf(order, files) = <<>>
       THEN /\ Return(NoFilesResult)
            /\ loc' = NoLoc
            /\ log' = <<"iterdir">>
       ELSE /\ pc' = "l_max"
            /\ loc' = [NoLoc EXCEPT !.order = FilesOf(order, files)]
            /\ log' = <<"iterdir">>
            /\ result' = NoResult
            /\ dirAtCall' = files
            /\ UNCHANGED <<listener, elapsed, opStart>>

(* Line 41: one stat per enumerated file; a file gone since raises.         *)
LatestMax(statOk) ==
    /\ pc = "l_max"
    /\ UNCHANGED <<call, configured, dirExists, files, clock, trigger, bw,
                   bname, browserWrote, uploaded, run>>
    /\ IF statOk /\ \A i \in 1 .. Len(loc.order) : Exists(files, loc.order[i])
       THEN /\ pc' = "l_size"
            /\ loc' = [loc EXCEPT !.name = LatestOf(loc.order, files)]
            /\ UNCHANGED <<log, result, listener, elapsed, opStart, dirAtCall>>
       ELSE /\ Return(Raised("OSError"))
            /\ Logged("fault")
            /\ UNCHANGED loc

(* Line 47: stat for size_bytes.                                            *)
LatestSize ==
    /\ pc = "l_size"
    /\ UNCHANGED <<call, configured, dirExists, files, clock, trigger, bw,
                   bname, browserWrote, uploaded, run>>
    /\ IF Exists(files, loc.name)
       THEN /\ pc' = "l_mtime"
            /\ loc' = [loc EXCEPT !.size = files[loc.name].size]
            /\ UNCHANGED <<log, result, listener, elapsed, opStart, dirAtCall>>
       ELSE /\ Return(Raised("OSError"))
            /\ Logged("fault")
            /\ UNCHANGED loc

(* Lines 48-55: stat for modified_time_utc, then the envelope.              *)
LatestMtime ==
    /\ pc = "l_mtime"
    /\ UNCHANGED <<call, loc, configured, dirExists, files, clock, trigger, bw,
                   bname, browserWrote, uploaded, run>>
    /\ IF Exists(files, loc.name)
       THEN /\ Return(ContentResult(Content("confirmed", -1, loc.name),
                                    ConfirmedPayload(loc.name, loc.size,
                                                     files[loc.name].mtime),
                                    TRUE))
            /\ UNCHANGED log
       ELSE /\ Return(Raised("OSError"))
            /\ Logged("fault")

----------------------------------------------------------------------------
(* The upload action as one step of the caller's loop                       *)

Answers == {"raise", "none", "ok"}

(* browser_profile.downloads_dir, the target directory, as a canonical path *)
DownloadsDir == <<"t">>

(* The canonical path ap names a direct entry of the target directory       *)
InTarget(ap) ==
    /\ ap.slashes = 1
    /\ Len(ap.parts) = Len(DownloadsDir) + 1
    /\ SubSeq(ap.parts, 1, Len(DownloadsDir)) = DownloadsDir
    /\ ap.parts[Len(ap.parts)] \in Names

(* str(latest_file.resolve()): the path a download record reports           *)
DownloadPath(name) == [slashes |-> 1, parts |-> Append(DownloadsDir, name)]

(* A file outside the target directory *)
OtherDirPath == [abs |-> TRUE, parts |-> <<"u", "a">>]

(* Paths offered to the upload action next to the latest-download query:    *)
(* a file of the target directory and a file of another directory.         *)
RoundTripPaths ==
    { [abs |-> TRUE, parts |-> <<"t", "a">>], OtherDirPath }

(* The caller's loop invokes the upload action.                             *)
UploadStart(variant, index, path, allow, cwd) ==
    /\ pc = "idle"
    /\ pc' = "u_start"
    /\ call' = UploadCall(variant, index, path, allow, cwd)
    /\ result' = NoResult
    /\ log' = <<>>
    /\ loc' = NoLoc
    /\ browserWrote' = FALSE
    /\ dirAtCall' = files
    /\ UNCHANGED <<configured, dirExists, files, clock, elapsed, opStart, listener,
                   trigger, bw, bname, uploaded, run>>

(* The handler runs; set_input_files succeeds only on a file that exists.   *)
Upload(find, locate, attach) ==
    /\ pc = "u_start"
    /\ LET ap == AbsPath(call.path, call.cwd)
           o == UploadOutcome(call.variant, call.index, call.path, call.allow,
                              call.cwd, find, locate, attach)
       IN  /\ (attach = "ok" /\ InTarget(ap)) => IsFile(files, ap.parts[Len(ap.parts)])
           /\ log' = o.calls
           /\ Return(o.res)
           /\ UNCHANGED run
           /\ uploaded' = IF o.res.ret = "envelope" /\ o.res.error = NoErr
                           THEN uploaded \cup {ap}
                           ELSE uploaded
    /\ UNCHANGED <<call, loc, configured, dirExists, files, clock, trigger, bw,
                   bname, browserWrote>>

----------------------------------------------------------------------------
(* The controller's actions and the force-click action                      *)

(* Faulty variant: the force-click action is not registered                 *)
RegisteredWithoutForce == {"upload", "latest", "click"}

(* The actions registered with the controller *)
Registered == {"upload", "latest", "click", "force_click"}

Selectors == {"#a", ".b"}

ForceCall == [NoCall EXCEPT !.op = "force_click"]

(* forceClick(selector, session): the element is looked up by selector      *)
(* alone and a synthetic click is dispatched to it. No match: NotFound;     *)
(* the dispatch fails: IOError.                                             *)
ForceClick(selector, match, dispatch) ==
    /\ pc = "idle"
    /\ "force_click" \in Registered
    /\ call' = ForceCall
    /\ loc' = NoLoc
    /\ browserWrote' = FALSE
    /\ log' = IF match = "none" THEN <<"query_selector">>
              ELSE IF dispatch = "raise" THEN <<"query_selector", "dispatch", "fault">>
              ELSE <<"query_selector", "dispatch">>
    /\ trigger' = (trigger \/ (match = "ok" /\ dispatch = "ok"))
    /\ Return(IF match = "none"
              THEN ErrorResult(Err("selector_not_found", "NotFound", -1))
              ELSE IF dispatch = "raise"
              THEN ErrorResult(Err("dispatch_failed", "IOError", -1))
              ELSE ContentResult(Content("force_clicked", -1, selector), NoPayload, TRUE))
    /\ UNCHANGED <<configured, dirExists, files, clock, bw, bname, uploaded, run>>

----------------------------------------------------------------------------
(* The agent runner: browser profile, choice of the output model, agent     *)
(* run, result file, end of the session                                     *)

(* The four run functions: the runner's main.py, the agent assets' main.py  *)
(* and agent.py, and the first agent.py                                     *)
RunVariants == {"runner_main", "assets_main", "assets_agent", "agent"}

(* --output-schema: not given, not valid JSON, valid JSON *)
Schemas == {"none", "invalid", "valid"}

(* tempfile's directory and the name under which the generated module is    *)
(* imported                                                                 *)
TempDir == "tmp"

TempModule == "temp_dyn_model"

(* sys.path as the process may hold it when the model is chosen *)
SysPaths == {<<"app">>, <<"tmp", "app">>, <<"app", "tmp">>}

(* The empty string as a directory *)
NoDir == [slashes |-> 0, parts |-> <<>>]

NoProfile == [downloads_dir |-> NoDir, fallback |-> FALSE]

NoRun ==
    [phase |-> "none", variant |-> "-", schema |-> "-", model |-> "-",
     selRaised |-> FALSE, path0 |-> <<>>, syspath |-> <<>>, modules |-> {},
     tmp |-> "none", final |-> "-", out0 |-> "-", outfile |-> "-", fsOk |-> TRUE,
     stops |-> 0, ret |-> "none", profile |-> NoProfile]

(* The variables of the actions, which the runner's own steps leave alone   *)
actionVars == <<pc, call, result, log, loc, configured, dirExists, files, clock,
                elapsed, opStart, listener, trigger, bw, bname, dirAtCall,
                browserWrote, uploaded>>

(* list.remove(e): the first occurrence goes *)
RECURSIVE RemoveFirst(_, _)
RemoveFirst(s, e) ==
    IF s = <<>> THEN <<>>
    ELSE IF Head(s) = e THEN Tail(s)
    ELSE <<Head(s)>> \o RemoveFirst(Tail(s), e)

(* get_pydantic_model_from_schema with sys.path = path0 and sys.modules =   *)
(* mods0, its collaborators answering as given: the temporary file is       *)
(* created (or not), generate() and read_text() go through, a module spec   *)
(* with a loader is obtained, the module executes, cand tells which model   *)
(* class the module holds ("named", "other", "none"), model_rebuild goes    *)
(* through, and the final unlink succeeds.                                  *)
GetPydanticModelFromSchema(path0, mods0, tmpOk, genOk, specOk, execOk, cand, rebuildOk, unlinkOk) ==
    IF ~tmpOk
    THEN [raised |-> TRUE, model |-> "-", syspath |-> path0, modules |-> mods0,
          tmp |-> "none"]
    ELSE LET path1 == IF genOk /\ TempDir \notin {path0[i] : i \in DOMAIN path0}
                      THEN <<TempDir>> \o path0 ELSE path0
             mods1 == IF genOk /\ specOk THEN mods0 \cup {TempModule} ELSE mods0
             obtained == genOk /\ specOk /\ execOk /\ cand # "none" /\ rebuildOk
         IN  [raised |-> FALSE,
              model |-> IF obtained THEN "Generated" ELSE "Summary",
              syspath |-> IF TempDir \in {path1[i] : i \in DOMAIN path1}
                          THEN RemoveFirst(path1, TempDir) ELSE path1,
              modules |-> mods1 \ {TempModule},
              tmp |-> IF unlinkOk THEN "deleted" ELSE "left"]

(* The choice of the controller's output model. The first agent.py has the  *)
(* Summary model built in; the others default to Summary, try the schema    *)
(* when one is given, and fall back to Summary on any exception.            *)
SelectModel(tmpOk, genOk, specOk, execOk, cand, rebuildOk, unlinkOk) ==
    /\ run.phase = "start"
    /\ UNCHANGED actionVars
    /\ IF run.variant = "agent" \/ run.schema # "valid"
       THEN run' = [run EXCEPT !.phase = "selected", !.model = "Summary"]
       ELSE LET o == GetPydanticModelFromSchema(run.path0, run.modules, tmpOk, genOk,
                                                specOk, execOk, cand, rebuildOk,
                                                unlinkOk)
            IN  run' = [run EXCEPT !.phase = "selected",
                                   !.selRaised = o.raised,
                                   !.model = IF o.raised THEN "Summary" ELSE o.model,
                                   !.syspath = o.syspath,
                                   !.modules = o.modules,
                                   !.tmp = o.tmp]

(* BrowserSession(...) and Agent(...) are constructed *)
CreateSession ==
    /\ run.phase = "selected"
    /\ run' = [run EXCEPT !.phase = "session"]
    /\ UNCHANGED actionVars

(* history = await agent.run(); history.final_result(): a result text,      *)
(* None, or an exception                                                    *)
AgentRun(outcome) ==
    /\ run.phase = "session"
    /\ run' = [run EXCEPT !.phase = "ran", !.final = outcome]
    /\ UNCHANGED actionVars

(* The result file after the try block. The two main.py write only a result *)
(* that is not None; the two agent.py open the file for writing before      *)
(* f.write(result_json), which raises TypeError for None. open(..., "w")    *)
(* creates or truncates the file.                                           *)
OutfileAfter(variant, final, outfile, mkdirOk, openOk, writeOk) ==
    IF final = "raise" THEN outfile
    ELSE IF variant \in {"runner_main", "assets_main"} /\ final = "null" THEN outfile
    ELSE IF ~mkdirOk \/ ~openOk THEN outfile
    ELSE IF final = "null" \/ ~writeOk THEN "empty"
    ELSE "new"

WriteResult(mkdirOk, openOk, writeOk) ==
    /\ run.phase = "ran"
    /\ run' = [run EXCEPT !.phase = "finally",
                          !.fsOk = mkdirOk /\ openOk /\ writeOk,
                          !.outfile = OutfileAfter(run.variant, run.final, run.outfile,
                                                   mkdirOk, openOk, writeOk)]
    /\ UNCHANGED actionVars

(* The finally block: the two main.py await browser_session.stop(), the     *)
(* assets' agent.py awaits browser_session.close(), each inside a try that  *)
(* swallows the fault; the first agent.py only prints.                      *)
StopSession(out) ==
    /\ run.phase = "finally"
    /\ run' = [run EXCEPT !.phase = "returned",
                          !.ret = "normal",
                          !.stops = IF run.variant = "agent" THEN 0 ELSE run.stops + 1]
    /\ UNCHANGED actionVars

(* The directory arguments create_browser_profile may get: None, the empty  *)
(* string, a relative and an absolute path                                  *)
NoArg == [abs |-> FALSE, parts |-> <<"None">>]

ProfileArgs ==
    {NoArg, [abs |-> FALSE, parts |-> <<>>], [abs |-> FALSE, parts |-> <<"d">>],
     [abs |-> TRUE, parts |-> <<"t">>], [abs |-> TRUE, parts |-> <<>>]}

FallbackDir == [slashes |-> 1, parts |-> <<"tmp", "fallback">>]

(* Faulty variant: no fallback directory when none is given                 *)
CreateBrowserProfileNoFallback(arg, cwd) ==
    IF arg # NoArg /\ (arg.abs \/ arg.parts # <<>>)
    THEN [downloads_dir |-> AbsPath(arg, cwd), fallback |-> FALSE]
    ELSE [downloads_dir |-> NoDir, fallback |-> FALSE]

(* create_browser_profile: the absolute form of a given directory, else the *)
(* fallback directory, which is created.                                    *)
CreateBrowserProfile(arg, cwd) ==
    IF arg # NoArg /\ (arg.abs \/ arg.parts # <<>>)
    THEN [downloads_dir |-> AbsPath(arg, cwd), fallback |-> FALSE]
    ELSE [downloads_dir |-> FallbackDir, fallback |-> TRUE]

(* The test both download actions make of the session's profile *)
Configured(profile) == profile # NoProfile /\ profile.downloads_dir # NoDir

----------------------------------------------------------------------------
(* Specifications                                                           *)

NoFiles == [n \in Names |-> NoFile]

Init ==
    /\ pc = "idle"
    /\ call = NoCall
    /\ result = NoResult
    /\ log = <<>>
    /\ loc = NoLoc
    /\ configured \in BOOLEAN
    /\ dirExists \in BOOLEAN
    /\ files = NoFiles
    /\ clock = 0
    /\ elapsed = 0
    /\ opStart = 0
    /\ listener = "off"
    /\ trigger = FALSE
    /\ bw = 0
    /\ bname = "a"
    /\ dirAtCall = NoFiles
    /\ browserWrote = FALSE
    /\ uploaded = {}
    /\ run = NoRun

Next ==
    \/ \E i \in Indices, ok \in BOOLEAN : ClickStart(i, ok)
    \/ \E out \in {"raise", "none", "ok"} : GetPage(out)
    \/ \E snap \in {"raise", "none", "map"}, smap \in SUBSET Indices : GetState(snap, smap)
    \/ \E out \in Answers : Locate(out)
    \/ \E out \in {"text", "raise", "none", "timeout"} : TextDone(out)
    \/ \E out \in {"ok", "raise", "timeout"} : ClickDone(out)
    \/ Tick
    \/ \E n \in Names : BrowserDownloadEvent(n)
    \/ WaitObserved
    \/ WaitTimeout
    \/ \E out \in {"ok", "raise"} : PathDone(out)
    \/ \E out \in {"ok", "nothing", "raise"}, s \in Sizes : SaveDone(out, s)
    \/ Verify
    \/ Fallback
    \/ Confirm
    \/ ReadSize
    \/ ReadMtime
    \/ \E s \in Sizes : BrowserWrite(s)
    \/ BrowserRemove
    \/ \E o \in Orders, ok \in BOOLEAN : LatestStart(o, ok)
    \/ \E ok \in BOOLEAN : LatestMax(ok)
    \/ LatestSize
    \/ LatestMtime

Spec == Init /\ [][Next]_vars

(* The three registered actions together, called in any order               *)
NextAll ==
    \/ Next
    \/ \E v \in Variants, A \in SUBSET {OtherDirPath} :
           UploadStart(v, 0, OtherDirPath, A, <<>>)
    \/ \E find \in Answers, locate \in Answers, attach \in {"raise", "ok"} :
           Upload(find, locate, attach)

SpecAll == Init /\ [][NextAll]_vars

(* The browser starts its download only when no waiter can take the event   *)
(* any more: after the wait's deadline or after the call has returned.      *)
LateDownloadEvent(name) ==
    /\ ~(listener = "armed" /\ elapsed < DownloadTimeoutS)
    /\ BrowserDownloadEvent(name)

(* The runs in which every click goes through and every download comes      *)
(* late: each call that clicked ends in the wait's timeout, nothing is ever *)
(* saved by a call, and every file of the target directory is one the       *)
(* browser wrote on its own.                                                *)
NextOrphan ==
    \/ \E i \in Indices, ok \in BOOLEAN : ClickStart(i, ok)
    \/ \E out \in {"raise", "none", "ok"} : GetPage(out)
    \/ \E snap \in {"raise", "none", "map"}, smap \in SUBSET Indices : GetState(snap, smap)
    \/ \E out \in Answers : Locate(out)
    \/ \E out \in {"text", "raise", "none", "timeout"} : TextDone(out)
    \/ ClickDone("ok")
    \/ Tick
    \/ \E n \in Names : LateDownloadEvent(n)
    \/ WaitTimeout
    \/ \E s \in Sizes : BrowserWrite(s)
    \/ BrowserRemove
    \/ \E o \in Orders, ok \in BOOLEAN : LatestStart(o, ok)
    \/ \E ok \in BOOLEAN : LatestMax(ok)
    \/ LatestSize
    \/ LatestMtime

SpecOrphan == Init /\ [][NextOrphan]_vars

(* The download actions and the force-click action, called in any order     *)
NextForce ==
    \/ Next
    \/ \E sel \in Selectors, match \in {"none", "ok"}, dispatch \in {"raise", "ok"} :
           ForceClick(sel, match, dispatch)

SpecForce == Init /\ [][NextForce]_vars

(* click-and-confirm-download alone, the download event carrying any of     *)
(* the suggested filenames; files also records what lies at the final path  *)
(* of a name that leaves the target directory.                              *)
InitEscape ==
    /\ pc = "idle"
    /\ call = NoCall
    /\ result = NoResult
    /\ log = <<>>
    /\ loc = NoLoc
    /\ configured \in BOOLEAN
    /\ dirExists \in BOOLEAN
    /\ files = [n \in SuggestedNames |-> NoFile]
    /\ clock = 0
    /\ elapsed = 0
    /\ opStart = 0
    /\ listener = "off"
    /\ trigger = FALSE
    /\ bw = 0
    /\ bname = "a"
    /\ dirAtCall = [n \in SuggestedNames |-> NoFile]
    /\ browserWrote = FALSE
    /\ uploaded = {}
    /\ run = NoRun

NextEscape ==
    \/ \E i \in Indices, ok \in BOOLEAN : ClickStart(i, ok)
    \/ \E out \in {"raise", "none", "ok"} : GetPage(out)
    \/ \E snap \in {"raise", "none", "map"}, smap \in SUBSET Indices : GetState(snap, smap)
    \/ \E out \in Answers : Locate(out)
    \/ \E out \in {"text", "raise", "none", "timeout"} : TextDone(out)
    \/ \E out \in {"ok", "raise", "timeout"} : ClickDone(out)
    \/ Tick
    \/ \E n \in SuggestedNames : BrowserDownloadEvent(n)
    \/ WaitObserved
    \/ WaitTimeout
    \/ \E out \in {"ok", "raise"} : PathDone(out)
    \/ \E out \in {"ok", "nothing", "raise"}, s \in Sizes : SaveDone(out, s)
    \/ Verify
    \/ Fallback
    \/ Confirm
    \/ ReadSize
    \/ ReadMtime

SpecEscape == InitEscape /\ [][NextEscape]_vars

(* The upload action alone, its inputs drawn from the bounded sets          *)
InitUpload ==
    /\ pc = "u_start"
    /\ call \in {UploadCall(v, i, p, A, c) :
                    v \in Variants, i \in Indices, p \in PathInputs,
                    A \in AllowInputs, c \in CwdInputs}
    /\ result = NoResult
    /\ log = <<>>
    /\ loc = NoLoc
    /\ configured = TRUE
    /\ dirExists = TRUE
    /\ files = NoFiles
    /\ clock = 0
    /\ elapsed = 0
    /\ opStart = 0
    /\ listener = "off"
    /\ trigger = FALSE
    /\ bw = 0
    /\ bname = "a"
    /\ dirAtCall = NoFiles
    /\ browserWrote = FALSE
    /\ uploaded = {}
    /\ run = NoRun

(* The latest-download query and the upload action over the directories    *)
(* the query can meet: regular files and subdirectories with any sizes and  *)
(* modification times, the browser's writer possibly still at work.         *)
Entries ==
    {NoFile} \cup {File(s, m) : s \in Sizes, m \in 0 .. MaxClock}
             \cup {Dir(m, i) : m \in 0 .. MaxClock, i \in -1 .. MaxClock}

InitLatest ==
    /\ pc = "idle"
    /\ call = NoCall
    /\ result = NoResult
    /\ log = <<>>
    /\ loc = NoLoc
    /\ configured \in BOOLEAN
    /\ dirExists \in BOOLEAN
    /\ files \in (IF dirExists THEN [Names -> Entries] ELSE {NoFiles})
    /\ clock = MaxClock
    /\ elapsed = 0
    /\ opStart = 0
    /\ listener = "off"
    /\ trigger = FALSE
    /\ bw \in {0, MaxBrowserWrites}
    /\ bname = "a"
    /\ dirAtCall = files
    /\ browserWrote = FALSE
    /\ uploaded = {}
    /\ run = NoRun

NextLatest ==
    \/ \E o \in Orders, ok \in BOOLEAN : LatestStart(o, ok)
    \/ \E ok \in BOOLEAN : LatestMax(ok)
    \/ LatestSize
    \/ LatestMtime
    \/ \E v \in Variants, p \in RoundTripPaths :
           UploadStart(v, 0, p, RoundTripPaths, <<>>)
    \/ \E find \in Answers, locate \in Answers, attach \in {"raise", "ok"} :
           Upload(find, locate, attach)
    \/ \E s \in Sizes : BrowserWrite(s)
    \/ BrowserRemove

SpecLatest == InitLatest /\ [][NextLatest]_vars

NextUpload == \E find \in Answers, locate \in Answers, attach \in {"raise", "ok"} :
                  Upload(find, locate, attach)

SpecUpload == InitUpload /\ [][NextUpload]_vars

(* One run of a run function, from the parsed arguments to its return *)
InitRunner ==
    /\ pc = "idle"
    /\ call = NoCall
    /\ result = NoResult
    /\ log = <<>>
    /\ loc = NoLoc
    /\ configured = TRUE
    /\ dirExists = TRUE
    /\ files = NoFiles
    /\ clock = 0
    /\ elapsed = 0
    /\ opStart = 0
    /\ listener = "off"
    /\ trigger = FALSE
    /\ bw = 0
    /\ bname = "a"
    /\ dirAtCall = NoFiles
    /\ browserWrote = FALSE
    /\ uploaded = {}
    /\ run \in {[NoRun EXCEPT !.phase = "start", !.variant = v, !.schema = s,
                              !.path0 = p, !.syspath = p, !.out0 = o, !.outfile = o] :
                    v \in RunVariants, s \in Schemas, p \in SysPaths,
                    o \in {"absent", "old"}}

NextRunner ==
    \/ \E tmpOk, genOk, specOk, execOk, rebuildOk, unlinkOk \in BOOLEAN,
          cand \in {"named", "other", "none"} :
           SelectModel(tmpOk, genOk, specOk, execOk, cand, rebuildOk, unlinkOk)
    \/ CreateSession
    \/ \E outcome \in {"result", "null", "raise"} : AgentRun(outcome)
    \/ \E mkdirOk, openOk, writeOk \in BOOLEAN : WriteResult(mkdirOk, openOk, writeOk)
    \/ \E out \in {"ok", "raise"} : StopSession(out)

SpecRunner == InitRunner /\ [][NextRunner]_vars

(* The download actions on a session whose profile create_browser_profile   *)
(* built; the fallback directory exists, a given one may not. The browser   *)
(* is the one of the late downloads.                                        *)
InitProfile ==
    /\ pc = "idle"
    /\ call = NoCall
    /\ result = NoResult
    /\ log = <<>>
    /\ loc = NoLoc
    /\ run \in {[NoRun EXCEPT !.profile = CreateBrowserProfile(arg, <<"w">>)] :
                    arg \in ProfileArgs}
    /\ configured = Configured(run.profile)
    /\ dirExists \in (IF run.profile.fallback THEN {TRUE} ELSE BOOLEAN)
    /\ files = NoFiles
    /\ clock = 0
    /\ elapsed = 0
    /\ opStart = 0
    /\ listener = "off"
    /\ trigger = FALSE
    /\ bw = 0
    /\ bname = "a"
    /\ dirAtCall = NoFiles
    /\ browserWrote = FALSE
    /\ uploaded = {}

SpecProfile == InitProfile /\ [][NextOrphan]_vars

(* The timed calls answer or run into their deadline, time passes, and the  *)
(* steps that only touch the local filesystem complete; nothing makes the   *)
(* session, the element lookup or the download object answer.               *)
Fairness ==
    /\ WF_vars(Tick)
    /\ WF_vars(\E out \in {"text", "raise", "none", "timeout"} : TextDone(out))
    /\ WF_vars(\E out \in {"ok", "raise", "timeout"} : ClickDone(out))
    /\ WF_vars(WaitObserved)
    /\ WF_vars(WaitTimeout)
    /\ WF_vars(Verify)
    /\ WF_vars(Fallback)
    /\ WF_vars(Confirm)
    /\ WF_vars(ReadSize)
    /\ WF_vars(ReadMtime)
    /\ WF_vars(\E ok \in BOOLEAN : LatestMax(ok))
    /\ WF_vars(LatestSize)
    /\ WF_vars(LatestMtime)

FairSpec == Init /\ [][Next]_vars /\ Fairness

----------------------------------------------------------------------------
(* Properties                                                               *)

Range(s) == {s[i] : i \in 1 .. Len(s)}

Last(s) == IF s = <<>> THEN "-" ELSE s[Len(s)]

Returned(op) == pc = "idle" /\ call.op = op /\ result.ret # "none"

(* position of the first e in s, 0 when absent *)
First(s, e) ==
    IF e \in Range(s)
    THEN CHOOSE i \in 1 .. Len(s) : s[i] = e /\ \A j \in 1 .. i - 1 : s[j] # e
    ELSE 0

CanonicallyAllowed ==
    AbsPath(call.path, call.cwd) \in {AbsPath(p, call.cwd) : p \in call.allow}

(* C1: an upload whose path is not canonically equal to any allow-list      *)
(* entry returns an error envelope (the validation error) and makes no      *)
(* call on the session, in each of the three variants.                      *)
C1_UnlistedPathRejected ==
    (Returned("upload") /\ ~CanonicallyAllowed)
        => /\ result.ret = "envelope"
           /\ result.error.msg = "path_not_allowed"
           /\ result.content = NoContent
           /\ log = <<>>

C1_Witness ==
    /\ Returned("upload")
    /\ ~CanonicallyAllowed
    /\ call.variant = "agent"
    /\ call.allow # {}
    /\ ".." \in Range(call.path.parts)
    /\ result.error.msg = "path_not_allowed"

(* C2: every action hands its caller an envelope; no collaborator fault     *)
(* leaves the action.                                                       *)
C2_NoFaultPropagates == result.ret # "raised"

(* C3: in click-and-confirm-download every click is dispatched after the    *)
(* download waiter was armed, before the wait ended (event taken, deadline  *)
(* passed or block left), and while the waiter was within its deadline.     *)
C3_ClickWhileArmed ==
    \A i \in 1 .. Len(log) :
        log[i] = "click"
            => /\ \E j \in 1 .. i - 1 : log[j] = "arm"
               /\ \A j \in 1 .. i - 1 : log[j] \notin {"timeout", "path"}
               /\ loc.clickArmed = "yes"

C3_Witness == pc = "c_click" /\ "click" \in Range(log) /\ "event" \in Range(log)

(* C4: when the download wait runs into its deadline, the action returns    *)
(* an error envelope naming TimeoutError, and if no other writer touched    *)
(* the target directory during the call, its entries are those it had when  *)
(* the call began.                                                          *)
C4_TimeoutLeavesDirectory ==
    [][(pc = "c_wait" /\ pc' = "idle" /\ Last(log') = "timeout")
          => /\ result'.ret = "envelope"
             /\ result'.error.msg = "click_download_error"
             /\ result'.error.exc = "TimeoutError"
             /\ result'.payload = NoPayload
             /\ "click" \in Range(log')
             /\ (~browserWrote' => files' = dirAtCall)]_vars

C4_Witness ==
    /\ Returned("click")
    /\ Last(log) = "timeout"
    /\ result.error.exc = "TimeoutError"
    /\ ~browserWrote
    /\ \E n \in Names : IsFile(files, n)

(* C5 as stated: the save step is performed if and only if the download     *)
(* event was observed before the deadline.                                  *)
C5_SaveIffObserved ==
    Returned("click") => ("save" \in Range(log) <=> "event" \in Range(log))

(* C5, amended: one outcome of the race is acted upon. The save step is     *)
(* performed only after the download event was observed within the          *)
(* deadline; a call in which the deadline passed first observes no event,   *)
(* never asks for the path, saves or verifies, and returns an error         *)
(* envelope without payload, whatever the browser produces afterwards.      *)
C5_SaveOnlyIfObserved ==
    /\ "save" \in Range(log)
          => /\ "event" \in Range(log)
             /\ First(log, "event") < First(log, "save")
             /\ "timeout" \notin Range(log)
    /\ "timeout" \in Range(log)
          => /\ Range(log) \cap {"event", "path", "save", "saved", "verify", "fallback"} = {}
             /\ pc = "idle"
             /\ result.ret = "envelope"
             /\ result.error.exc = "TimeoutError"
             /\ result.payload = NoPayload

(* the wait timed out, the call returned, and the browser started the       *)
(* download afterwards                                                      *)
C5_Witness ==
    /\ Returned("click")
    /\ Last(log) = "timeout"
    /\ ~trigger
    /\ IsFile(files, bname)

(* C6: a record with status download_successful_and_saved has               *)
(* size_bytes > 0.                                                          *)
C6_SavedRecordNonEmpty ==
    result.payload.status = "download_successful_and_saved" => result.payload.size > 0

(* C7: a click-and-confirm-download call passes its phases in the order     *)
(* resolving, awaiting, saving, verifying; it ends in exactly one of Done   *)
(* (record, no error) and Failed (error, no record); Done comes only after  *)
(* an observed event, a performed save and a successful check of a          *)
(* non-empty file at the final path.                                        *)
PhaseRank(e) ==
    CASE e = "page" -> 1 [] e = "snapshot" -> 2 [] e = "locate" -> 3
      [] e = "arm" -> 4 [] e = "text" -> 5 [] e = "click" -> 6
      [] e = "path" -> 7 [] e = "save" -> 8 [] e = "saved" -> 9
      [] e = "verify" -> 10 [] e = "fallback" -> 11 [] OTHER -> 0

IsDone(r) ==
    /\ r.ret = "envelope"
    /\ r.error = NoErr
    /\ r.payload.status = "download_successful_and_saved"

IsFailed(r) == r.ret = "envelope" /\ r.error # NoErr /\ r.payload = NoPayload

C7_StateMachine ==
    call.op = "click"
        => /\ \A i, j \in 1 .. Len(log) :
                  (i < j /\ PhaseRank(log[i]) > 0 /\ PhaseRank(log[j]) > 0)
                      => PhaseRank(log[i]) < PhaseRank(log[j])
           /\ pc = "idle" => (IsDone(result) \/ IsFailed(result))
           /\ ~(IsDone(result) /\ IsFailed(result))
           /\ IsDone(result)
                  => /\ {"event", "saved", "verify"} \subseteq Range(log)
                     /\ First(log, "event") < First(log, "saved")
                     /\ First(log, "saved") < First(log, "verify")

(* C8: every call that was started returns.                                 *)
C8_EveryCallReturns == (pc # "idle") ~> (pc = "idle")

(* C9: an index-based action asked for an index that the snapshot's         *)
(* mapping lacks returns the not-found error, whose text lists the valid    *)
(* indices and only those.                                                  *)
C9_NotFoundListsValid ==
    (Returned("click") /\ Last(log) = "snapshot" /\ loc.snap = "map"
       /\ call.index \notin loc.smap)
        => /\ result.error.msg = "index_not_found"
           /\ result.error.listsValid
           /\ result.error.valid = loc.smap

(* C10: the three resolution failures have their own outcomes, each given   *)
(* exactly under its condition (no snapshot captured; snapshot lacks the    *)
(* index; no live handle for the reference), and none dispatches a click.   *)
C10_ThreeResolveFailures ==
    (Returned("click") /\ Last(log) \in {"snapshot", "locate"})
        => /\ result.error.msg = "no_state"
                <=> (Last(log) = "snapshot" /\ loc.snap \in {"raise", "none"})
           /\ result.error.msg = "index_not_found"
                <=> (Last(log) = "snapshot" /\ loc.snap = "map"
                       /\ call.index \notin loc.smap)
           /\ result.error.msg = "no_handle" <=> Last(log) = "locate"
           /\ "click" \notin Range(log)

(* C11: in upload, when the path is allowed and the element reference was   *)
(* found but get_locate_element gives no live handle, the envelope carries  *)
(* the resolver's handle-unobtainable error, not an attachment failure.     *)
C11_HandleErrorSurfaced ==
    (Returned("upload") /\ log = <<"find_upload", "locate">>
       /\ result.ret = "envelope")
        => result.error.msg = "no_handle"

(* C12: upload passes validation exactly when the canonical absolute form   *)
(* of the path equals that of some allow-list entry, in each variant.       *)
C12_AcceptedIffCanonical ==
    Returned("upload")
        => (result.error.msg # "path_not_allowed" <=> CanonicallyAllowed)

(* C13: an upload whose attach succeeded returns an envelope without error, *)
(* whose content names the index and the path, with include_in_memory set,  *)
(* in each variant.                                                         *)
C13_UploadSuccessEnvelope ==
    (Returned("upload") /\ Last(log) = "attach" /\ result.error = NoErr)
        => /\ result.ret = "envelope"
           /\ result.content.msg = "uploaded"
           /\ result.content.index = call.index
           /\ result.content.path = call.path
           /\ result.mem

(* the latest-download query hands back its result in this step             *)
QueryReturns == pc' = "idle" /\ call'.op = "latest" /\ bw' = bw

(* every filesystem call of the query answered *)
FsAnswered(l) == "fault" \notin Range(l)

RegularFiles(fs) == {n \in Names : IsFile(fs, n)}

(* C14: the latest-download query on an existing target directory whose     *)
(* enumeration yields no regular file returns the 'no files found'          *)
(* envelope: no error, no payload.                                          *)
C14_EmptyDirectoryNoFiles ==
    [][(QueryReturns /\ configured /\ dirExists /\ RegularFiles(files) = {}
          /\ ~browserWrote' /\ FsAnswered(log'))
          => /\ result'.ret = "envelope"
             /\ result'.error = NoErr
             /\ result'.content.msg = "no_files"
             /\ result'.payload = NoPayload]_vars

C14_Witness ==
    /\ Returned("latest")
    /\ dirExists
    /\ files = NoFiles
    /\ log = <<"iterdir">>
    /\ result.content.msg = "no_files"
    /\ result.error = NoErr

(* C15: over a target directory with at least one regular file, which no    *)
(* other writer changes during the query and whose stats answer, the query  *)
(* returns a record with status confirmed_in_target_dir whose name, place,  *)
(* size and modification time are those of a regular file of greatest       *)
(* modification time.                                                       *)
C15_LatestHasMaxMtime ==
    [][(QueryReturns /\ configured /\ dirExists /\ RegularFiles(files) # {}
          /\ ~browserWrote' /\ FsAnswered(log'))
          => /\ result'.ret = "envelope"
             /\ result'.error = NoErr
             /\ result'.payload.status = "confirmed_in_target_dir"
             /\ result'.payload.filename \in RegularFiles(files)
             /\ result'.payload.dir = "target"
             /\ result'.payload.size = files[result'.payload.filename].size
             /\ result'.payload.mtime = files[result'.payload.filename].mtime
             /\ \A n \in RegularFiles(files) :
                    files[n].mtime <= result'.payload.mtime]_vars

(* two files of different age, the older one enumerated first *)
C15_Witness ==
    /\ Returned("latest")
    /\ ~browserWrote
    /\ bw = 0
    /\ result.payload.status = "confirmed_in_target_dir"
    /\ Len(loc.order) = 2
    /\ result.payload.filename = loc.order[2]
    /\ files[loc.order[1]].mtime < files[loc.order[2]].mtime
    /\ result.payload.size > 0

(* C16: among the enumerated regular files the query reports the first, in  *)
(* enumeration order, of those with the greatest modification time; the     *)
(* reported file is thereby fixed by the directory and the order.           *)
C16_TieFirstEnumerated ==
    [][(QueryReturns /\ ~browserWrote'
          /\ result'.payload.status = "confirmed_in_target_dir")
          => \E k \in 1 .. Len(loc'.order) :
                /\ loc'.order[k] = result'.payload.filename
                /\ \A j \in 1 .. Len(loc'.order) :
                       files[loc'.order[j]].mtime <= files[loc'.order[k]].mtime
                /\ \A j \in 1 .. k - 1 :
                       files[loc'.order[j]].mtime < files[loc'.order[k]].mtime]_vars

C16_Witness ==
    /\ Returned("latest")
    /\ ~browserWrote
    /\ bw = 0
    /\ result.payload.status = "confirmed_in_target_dir"
    /\ loc.order = <<"b", "a">>
    /\ files["a"].mtime = files["b"].mtime
    /\ result.payload.filename = "b"

(* C17: the query reports only a regular file that is a direct entry of the *)
(* target directory, with that file's own modification time, whatever       *)
(* subdirectories and files inside them exist; a directory without direct   *)
(* regular files yields the 'no files found' envelope.                      *)
C17_OnlyDirectRegularFiles ==
    [][(QueryReturns /\ ~browserWrote')
          => /\ result'.payload.status = "confirmed_in_target_dir"
                  => /\ IsFile(files, result'.payload.filename)
                     /\ result'.payload.mtime = files[result'.payload.filename].mtime
             /\ (configured /\ dirExists /\ FsAnswered(log')
                   /\ RegularFiles(files) = {}
                   /\ \E n \in Names : files[n].kind = "dir")
                  => /\ result'.content.msg = "no_files"
                     /\ result'.payload = NoPayload]_vars

(* a subdirectory, and a file inside it, both newer than the reported file  *)
C17_Witness ==
    /\ Returned("latest")
    /\ ~browserWrote
    /\ bw = 0
    /\ result.payload.status = "confirmed_in_target_dir"
    /\ \E d \in Names :
          /\ files[d].kind = "dir"
          /\ files[d].mtime > result.payload.mtime
          /\ files[d].inner > result.payload.mtime

(* C18: the file a latest-download query reports is never a file that an    *)
(* earlier upload attached.                                                 *)
C18_UploadedNeverReported ==
    (Returned("latest") /\ result.payload.status = "confirmed_in_target_dir")
        => DownloadPath(result.payload.filename) \notin uploaded

(* C19: after the save, a final path that holds no non-empty file sends the *)
(* action to the fallback look at the target directory for the suggested    *)
(* filename; failure is declared only by that fallback, and only when it    *)
(* finds no non-empty file of that name; when it finds one (placed, say, by *)
(* the browser's own writer) the action goes on to build its record and     *)
(* ends in Done unless the file is removed under it.                        *)
C19_FallbackBeforeFailure ==
    [][/\ (pc = "c_verify" /\ pc' # "c_verify")
            => pc' = IF NonEmptyFileAt(files, loc.name) THEN "c_confirm"
                     ELSE "c_fallback"
       /\ (pc = "c_fallback" /\ pc' # "c_fallback")
            => IF NonEmptyFileAt(files, loc.name)
               THEN pc' = "c_confirm" /\ result' = NoResult
               ELSE pc' = "idle" /\ IsFailed(result')
       /\ (result'.error.msg = "not_saved" /\ result.error.msg # "not_saved")
            => pc = "c_fallback" /\ Last(log') = "fallback"
       /\ (pc \in {"c_confirm", "c_size", "c_mtime"} /\ pc' = "idle")
            => \/ IsDone(result')
               \/ ~IsFile(files, loc.name) /\ browserWrote]_vars

(* the save left an empty or missing file, the browser's writer then placed *)
(* a non-empty one, the fallback found it and the call ended in Done        *)
C19_Witness ==
    /\ Returned("click")
    /\ IsDone(result)
    /\ "fallback" \in Range(log)
    /\ browserWrote
    /\ result.payload.size > 0

StartsOf(op) == pc = "idle" /\ call'.op = op /\ bw' = bw /\ trigger' = trigger

(* C21: a click-and-confirm-download call that finds no target directory    *)
(* creates it before any interaction with the session; when the creation    *)
(* faults the call returns the creation error envelope at once, with no     *)
(* page lookup, snapshot, click or download wait.                           *)
C21_TargetCreatedFirst ==
    [][/\ (StartsOf("click") /\ configured /\ ~dirExists)
            => /\ log' = <<>>
               /\ files' = files
               /\ IF dirExists'
                  THEN pc' = "c_page" /\ result' = NoResult
                  ELSE /\ pc' = "idle"
                       /\ result'.ret = "envelope"
                       /\ result'.error.msg = "mkdir_failed"
                       /\ result'.payload = NoPayload
                       /\ listener' = "off"
       /\ (call'.op = "click" /\ log' # <<>>) => dirExists'
       /\ result'.error.msg = "mkdir_failed" => log' = <<>>]_vars

C21_Witness ==
    /\ Returned("click")
    /\ configured
    /\ ~dirExists
    /\ result.error.msg = "mkdir_failed"
    /\ log = <<>>

(* C22: without a configured downloads directory the latest-download query  *)
(* and click-and-confirm-download return the configuration error envelope   *)
(* at once: no directory is created or read, no session call is made.       *)
C22_UnconfiguredRejected ==
    [][((StartsOf("click") \/ StartsOf("latest")) /\ ~configured)
          => /\ pc' = "idle"
             /\ result'.ret = "envelope"
             /\ result'.error.msg = "not_configured"
             /\ result'.content = NoContent
             /\ result'.payload = NoPayload
             /\ log' = <<>>
             /\ dirExists' = dirExists
             /\ files' = files]_vars

C22_Witness ==
    /\ Returned("click")
    /\ ~configured
    /\ ~dirExists
    /\ result.error.msg = "not_configured"
    /\ log = <<>>

(* C23: an envelope has exactly one of error and extracted content set; a   *)
(* payload comes only with the latest-download query's confirmed record and *)
(* with click-and-confirm-download's saved record, never with an error.     *)
C23_EnvelopeShape ==
    result.ret = "envelope"
        => /\ (result.error # NoErr) # (result.content # NoContent)
           /\ result.payload # NoPayload
                => /\ result.error = NoErr
                   /\ \/ /\ call.op = "latest"
                         /\ result.payload.status = "confirmed_in_target_dir"
                      \/ /\ call.op = "click"
                         /\ result.payload.status = "download_successful_and_saved"
                         /\ "verify" \in Range(log)

C23_Witness ==
    /\ Returned("click")
    /\ IsDone(result)
    /\ result.content.msg = "saved"
    /\ uploaded # {}

Count(s, e) == Cardinality({i \in 1 .. Len(s) : s[i] = e})

(* C24: within one invocation each collaborator call is made at most once:  *)
(* one attach in upload; one snapshot, one click, one download wait and one *)
(* save in click-and-confirm-download, whatever fails.                      *)
C24_NoRetry ==
    \A e \in {"find_upload", "locate", "attach", "page", "snapshot", "arm",
              "text", "click", "path", "save"} : Count(log, e) <= 1

(* the click faulted and the call ended without a second attempt *)
C24_Witness ==
    /\ Returned("click")
    /\ Last(log) = "click"
    /\ result.error.msg = "click_download_error"
    /\ result.error.exc = "Error"

(* C25: reading the element's text before the click is best-effort:         *)
(* whatever text_content does, once it has ended the click has been         *)
(* dispatched.                                                              *)
C25_TextBestEffort ==
    (call.op = "click" /\ "text" \in Range(log) /\ pc # "c_text")
        => "click" \in Range(log)

(* C30: a Done result describes a file that this call's download wrote:     *)
(* save_as wrote the final path, or the browser's writer did during the     *)
(* call; a file that was only there before is never reported as saved.      *)
C30_DoneDescribesOwnFile ==
    (Returned("click") /\ IsDone(result))
        => ("saved" \in Range(log) \/ browserWrote)

(* C29: when click-and-confirm-download returns Done with record R, no      *)
(* other writer having touched the directory during the call, a             *)
(* latest-download query over the directory as it then is returns R's       *)
(* filename, place, size and modification time under the status             *)
(* confirmed_in_target_dir, whatever the enumeration order.                 *)
C29_QueryRepeatsRecord ==
    [][(pc # "idle" /\ pc' = "idle" /\ call.op = "click" /\ IsDone(result')
          /\ ~browserWrote')
          => \A o \in Orders :
                 QueryAnswer(o, files') =
                     [result'.payload EXCEPT !.status = "confirmed_in_target_dir"]]_vars

(* C26: on success the reported download_path is the final path, a direct   *)
(* child of the target directory named by the download's suggested          *)
(* filename, and size and modification time are those of the file at that   *)
(* final path, for every suggested filename.                                *)
C26_FinalPathInTarget ==
    (Returned("click") /\ IsDone(result))
        => /\ result.payload.dir = "target"
           /\ result.payload.filename = loc.name
           /\ result.payload.size = files[loc.name].size
           /\ result.payload.mtime = files[loc.name].mtime

(* C27: force-click is a registered action; it looks its element up by      *)
(* selector alone, with no snapshot and no index; a selector that matches   *)
(* nothing gives NotFound, a failed dispatch gives IOError, and otherwise   *)
(* the click is reported.                                                   *)
C27_ForceClickBySelector ==
    /\ "force_click" \in Registered
    /\ call.op = "force_click"
          => /\ pc = "idle"
             /\ result.ret = "envelope"
             /\ log # <<>> /\ log[1] = "query_selector"
             /\ Range(log) \cap {"page", "snapshot", "locate"} = {}
             /\ call.index = NoCall.index
             /\ result.error.index = -1 /\ result.content.index = -1
             /\ (log = <<"query_selector">>) <=> (result.error.exc = "NotFound")
             /\ ("fault" \in Range(log)) <=> (result.error.exc = "IOError")
             /\ (Last(log) = "dispatch")
                    <=> (result.error = NoErr /\ result.content.msg = "force_clicked")
             /\ result.payload = NoPayload

(* the selector matched and the click was dispatched                        *)
C27_Witness ==
    /\ Returned("force_click")
    /\ result.content.msg = "force_clicked"
    /\ result.content.name \in Selectors
    /\ trigger

(* C28: when every download comes after its call's wait has timed out, no   *)
(* click-and-confirm-download call reports a file: a call that clicked ends *)
(* in Failed(Timeout) without a record, and what the browser writes         *)
(* afterwards does not change that result. The latest-download query that   *)
(* then runs undisturbed over the directory reports, with status            *)
(* confirmed_in_target_dir, the orphaned file of greatest modification      *)
(* time.                                                                    *)
C28_OrphanReportedByQuery ==
    /\ [](call.op = "click"
            => /\ result.payload = NoPayload
               /\ "saved" \notin Range(log)
               /\ (pc = "idle" /\ "click" \in Range(log))
                      => /\ Last(log) = "timeout"
                         /\ IsFailed(result)
                         /\ result.error.exc = "TimeoutError")
    /\ [][(QueryReturns /\ configured /\ dirExists /\ RegularFiles(files) # {}
             /\ ~browserWrote' /\ FsAnswered(log'))
             => /\ result'.ret = "envelope"
                /\ result'.error = NoErr
                /\ result'.payload =
                       ConfirmedPayload(result'.payload.filename,
                                        files[result'.payload.filename].size,
                                        files[result'.payload.filename].mtime)
                /\ result'.payload.filename \in RegularFiles(files)
                /\ \A n \in RegularFiles(files) :
                       files[n].mtime <= result'.payload.mtime]_vars

(* two orphaned files, the older one enumerated first; the query reports    *)
(* the newer one, the file of the latest late download                      *)
C28_Witness ==
    /\ Returned("latest")
    /\ ~browserWrote
    /\ result.payload.status = "confirmed_in_target_dir"
    /\ result.payload.filename = bname
    /\ RegularFiles(files) = Names
    /\ loc.order[2] = bname
    /\ files[loc.order[1]].mtime < files[bname].mtime
    /\ ~trigger

(* C31: when click-and-confirm-download returns an envelope with error set, *)
(* the browser's writer not having written during the call, the entries of  *)
(* the target directory are those of the moment the call began.             *)
C31_FailedCallLeavesNothing ==
    [][(pc # "idle" /\ pc' = "idle" /\ call.op = "click"
          /\ result'.ret = "envelope" /\ result'.error # NoErr /\ ~browserWrote')
          => files' = dirAtCall]_vars

(* C32: the fallback check looks at the path the primary check looked at.   *)
(* It succeeds exactly when that path holds a non-empty file; as long as no *)
(* other writer has changed the directory the path still fails at the       *)
(* fallback, and a call is carried past a failed primary check only when    *)
(* the browser's writer wrote during the call.                              *)
C32_FallbackSamePath ==
    /\ [][(pc = "c_fallback" /\ pc' # "c_fallback")
             => /\ (pc' = "c_confirm") <=> NonEmptyFileAt(files, loc.name)
                /\ loc'.name = loc.name]_vars
    /\ []((pc = "c_fallback" /\ ~browserWrote) => ~NonEmptyFileAt(files, loc.name))
    /\ []((call.op = "click" /\ "fallback" \in Range(log)
             /\ (pc \in {"c_confirm", "c_size", "c_mtime"} \/ IsDone(result)))
            => browserWrote)

(* both checks failed on the download's own path with no other writer at    *)
(* work, although the directory holds a non-empty file of another name      *)
C32_Witness ==
    /\ Returned("click")
    /\ Last(log) = "fallback"
    /\ result.error.msg = "not_saved"
    /\ ~browserWrote
    /\ \E n \in Names : n # loc.name /\ NonEmptyFileAt(files, n)

(* C33: a latest-download query during which the browser's writer changed   *)
(* the directory, and which has selected its file, returns an envelope; the *)
(* size and modification time of its record are those the selected file had *)
(* at one moment: when the query began or when it returned.                 *)
C33_RecordOfOneState ==
    [][(QueryReturns /\ pc \in {"l_size", "l_mtime"} /\ browserWrote')
          => /\ result'.ret = "envelope"
             /\ \E fs \in {dirAtCall, files'} :
                    /\ IsFile(fs, result'.payload.filename)
                    /\ result'.payload.size = fs[result'.payload.filename].size
                    /\ result'.payload.mtime = fs[result'.payload.filename].mtime]_vars

(* a step of the latest-download query itself *)
QueryStep ==
    /\ bw' = bw
    /\ \/ pc = "idle" /\ call'.op = "latest" /\ (pc' # "idle" \/ result' # result \/ call' # call \/ log' # log)
       \/ pc \in {"l_max", "l_size", "l_mtime"}

(* C34: no step of the latest-download query changes the target directory,  *)
(* its entries or their times, and a missing directory stays missing; the   *)
(* query calls the filesystem only: no page lookup, snapshot, element       *)
(* lookup, click or download wait.                                          *)
C34_QueryReadOnly ==
    /\ [][QueryStep
             => /\ files' = files
                /\ dirExists' = dirExists
                /\ clock' = clock
                /\ configured' = configured
                /\ uploaded' = uploaded
                /\ trigger' = trigger /\ listener' = listener]_vars
    /\ [](call.op = "latest" => Range(log) \subseteq {"iterdir", "fault"})

(* the query found the target directory missing and left it missing *)
C34_Witness ==
    /\ Returned("latest")
    /\ configured
    /\ ~dirExists
    /\ result.error.msg = "dir_missing"
    /\ log = <<>>

(* C35: a run function that has returned has attempted to stop or close its *)
(* browser session exactly once, and has returned normally.                 *)
C35_SessionStoppedOnce ==
    run.phase = "returned" => (run.stops = 1 /\ run.ret = "normal")

(* C36: a run function with a chosen output model that has returned has    *)
(* returned normally; it has written the result file when the agent run     *)
(* gave a result and the filesystem calls went through, only then, and has  *)
(* otherwise left the file as it was.                                       *)
C36_ResultFileIffResult ==
    (run.phase = "returned" /\ run.variant # "agent")
        => /\ run.ret = "normal"
           /\ (run.final = "result" /\ run.fsOk) => run.outfile = "new"
           /\ run.outfile = "new" => run.final = "result"
           /\ run.final \in {"null", "raise"} => run.outfile = run.out0

(* C37: once the output model has been chosen it is Summary or the          *)
(* generated model, the generated one only for a valid schema; and          *)
(* get_pydantic_model_from_schema has not raised.                           *)
C37_ModelAlwaysChosen ==
    (run.phase \notin {"none", "start"} /\ run.variant # "agent")
        => /\ run.model \in {"Summary", "Generated"}
           /\ run.model = "Generated" => run.schema = "valid"
           /\ ~run.selRaised

(* C38: the profile create_browser_profile returns has a downloads          *)
(* directory that is a non-empty absolute path, the fallback directory      *)
(* exists, and no action on a session built from the profile returns the    *)
(* 'download directory not configured' error.                               *)
C38_ProfileHasDownloadsDir ==
    /\ run.profile.downloads_dir # NoDir
    /\ run.profile.downloads_dir.slashes >= 1
    /\ run.profile.fallback => (dirExists /\ run.profile.downloads_dir = FallbackDir)
    /\ configured
    /\ result.error.msg # "not_configured"

(* a latest-download query on a session with the fallback profile got past  *)
(* the configuration check                                                  *)
C38_Witness ==
    /\ run.profile.fallback
    /\ Returned("latest")
    /\ log = <<"iterdir">>
    /\ result.content.msg = "no_files"

(* C39: after get_pydantic_model_from_schema has returned, its unlink of    *)
(* the temporary source file having gone through, sys.path is what it was   *)
(* before the call and the temporary module is not among the loaded         *)
(* modules.                                                                 *)
C39_ImportStateRestored ==
    (run.phase \notin {"none", "start"} /\ run.variant # "agent"
       /\ run.schema = "valid" /\ run.tmp = "deleted")
        => /\ run.syspath = run.path0
           /\ TempModule \notin run.modules

====
